---- MODULE Spec2Model ----
(***************************************************************************)
(* Life Expectancy Predictor API (src/main.py).                            *)
(*                                                                         *)
(* Strings are tuples of one-character strings, so that strip() and        *)
(* lower() are computed character by character.  Optional values are sets  *)
(* of at most one element: {} is None, {v} is the value v.  Years are      *)
(* counted in hundredths (73.2 years is 7320), body-mass-index in tenths   *)
(* (23.1 is 231), dates as proleptic Gregorian ordinals (date.toordinal).  *)
(***************************************************************************)
EXTENDS Integers, Sequences, FiniteSets, TLC

VARIABLES
  today,      \* date.today(), an ordinal
  req,        \* the PredictRequest last handed to the program
  est,        \* what estimate_lifespan_years last returned
  resp,       \* what POST /api/predict last answered
  called_on,  \* the evaluation date of that answer
  prev        \* one earlier call of POST /api/predict: request, date, answer

vars == <<today, req, est, resp, called_on, prev>>

(* ---------------------------- bounds ----------------------------------- *)

\* Largest number of blanks put on either side of a country word.
MaxPad == 1

\* Number of days the evaluation date may advance past Day0.
MaxDay == 2

(* ---------------------------- Optional --------------------------------- *)

None == {}

Some(v) == {v}

Get(opt) == CHOOSE v \in opt : TRUE

\* Python's `x or default`: default when x is None or falsy.
OrElse(opt, falsy, default) ==
  IF opt = None \/ opt = Some(falsy) THEN default ELSE Get(opt)

(* ---------------------------- strings ---------------------------------- *)

S_global == <<"g", "l", "o", "b", "a", "l">>

S_usa == <<"u", "s", "a">>

S_uk == <<"u", "k">>

S_india == <<"i", "n", "d", "i", "a">>

S_japan == <<"j", "a", "p", "a", "n">>

S_nigeria == <<"n", "i", "g", "e", "r", "i", "a">>

S_mars == <<"m", "a", "r", "s">>

S_male == <<"m", "a", "l", "e">>

S_female == <<"f", "e", "m", "a", "l", "e">>

S_unspecified == <<"u", "n", "s", "p", "e", "c", "i", "f", "i", "e", "d">>

S_other == <<"o", "t", "h", "e", "r">>

UpperOf ==
  [a |-> "A", b |-> "B", c |-> "C", d |-> "D", e |-> "E", f |-> "F",
   g |-> "G", h |-> "H", i |-> "I", j |-> "J", k |-> "K", l |-> "L",
   m |-> "M", n |-> "N", o |-> "O", p |-> "P", q |-> "Q", r |-> "R",
   s |-> "S", t |-> "T", u |-> "U", v |-> "V", w |-> "W", x |-> "X",
   y |-> "Y", z |-> "Z"]

LowerChar(c) ==
  IF \E l \in DOMAIN UpperOf : UpperOf[l] = c
  THEN CHOOSE l \in DOMAIN UpperOf : UpperOf[l] = c
  ELSE c

UpperChar(c) == IF c \in DOMAIN UpperOf THEN UpperOf[c] ELSE c

\* str.lower()
Lower(s) == [i \in 1..Len(s) |-> LowerChar(s[i])]

\* str.upper(), used to build inputs only
Upper(s) == [i \in 1..Len(s) |-> UpperChar(s[i])]

\* str.capitalize(), used to build inputs only
Capitalize(s) ==
  [i \in 1..Len(s) |-> IF i = 1 THEN UpperChar(s[i]) ELSE LowerChar(s[i])]

IsSpace(c) == c \in {" ", "\t", "\n"}

RECURSIVE LStrip(_)
LStrip(s) ==
  IF s # <<>> /\ IsSpace(Head(s)) THEN LStrip(Tail(s)) ELSE s

RECURSIVE RStrip(_)
RStrip(s) ==
  IF s # <<>> /\ IsSpace(s[Len(s)])
  THEN RStrip(SubSeq(s, 1, Len(s) - 1))
  ELSE s

\* str.strip()
Strip(s) == RStrip(LStrip(s))

Blanks(n) == [i \in 1..n |-> " "]

(* ---------------------------- helpers ---------------------------------- *)

BASE_LIFE_EXPECTANCY ==
  (S_global :> (S_male :> 7100 @@ S_female :> 7560 @@ S_unspecified :> 7330))
  @@ (S_usa :> (S_male :> 7320 @@ S_female :> 7910 @@ S_unspecified :> 7620))
  @@ (S_uk :> (S_male :> 7900 @@ S_female :> 8290 @@ S_unspecified :> 8100))
  @@ (S_india :> (S_male :> 6750 @@ S_female :> 7070 @@ S_unspecified :> 6910))
  @@ (S_japan :> (S_male :> 8150 @@ S_female :> 8760 @@ S_unspecified :> 8450))
  @@ (S_nigeria :> (S_male :> 5350 @@ S_female :> 5520 @@ S_unspecified :> 5440))

\* dict.get(k, default)
DictGet(d, k, default) == IF k \in DOMAIN d THEN d[k] ELSE default

\* parse_country without strip()
parse_country_nostrip(key) ==
  IF key = None \/ key = Some(<<>>)
  THEN S_global
  ELSE LET k == Lower(Get(key))
       IN  IF k \in DOMAIN BASE_LIFE_EXPECTANCY THEN k ELSE S_global

parse_country(key) ==
  IF key = None \/ key = Some(<<>>)
  THEN S_global
  ELSE LET k == Lower(Strip(Get(key)))
       IN  IF k \in DOMAIN BASE_LIFE_EXPECTANCY THEN k ELSE S_global

\* round(n / d) for n >= 0, d > 0, ties to even
RoundDiv(n, d) ==
  LET q == n \div d
      r == n % d
  IN  IF 2 * r < d THEN q
      ELSE IF 2 * r > d THEN q + 1
      ELSE IF q % 2 = 0 THEN q ELSE q + 1

\* body-mass-index in tenths, from whole centimetres and kilograms
\* (round(weight_kg / (m * m), 1), with m = height_cm / 100.0)
calc_bmi(height_cm, weight_kg) ==
  IF height_cm = None \/ height_cm = Some(0)
     \/ weight_kg = None \/ weight_kg = Some(0)
  THEN None
  ELSE LET h == Get(height_cm)
           w == Get(weight_kg)
       IN  IF h <= 0 THEN None ELSE Some(RoundDiv(w * 100000, h * h))

Max(a, b) == IF a >= b THEN a ELSE b

Min(a, b) == IF a <= b THEN a ELSE b

RECURSIVE SumValues(_)
\* sum(adjustments.values())
SumValues(d) ==
  IF DOMAIN d = {} THEN 0
  ELSE LET k == CHOOSE x \in DOMAIN d : TRUE
       IN  d[k] + SumValues([x \in DOMAIN d \ {k} |-> d[x]])

EmptyDict == [x \in {} |-> 0]

(* ---------------------- estimate_lifespan_years ------------------------ *)

BaseFor(r) ==
  LET country_key == parse_country(r.country)
  IN  DictGet(BASE_LIFE_EXPECTANCY[country_key],
              OrElse(r.gender, <<>>, S_unspecified),
              BASE_LIFE_EXPECTANCY[country_key][S_unspecified])

SmokingAdjustment(r) ==
  IF r.is_smoker = Some(TRUE)
  THEN "smoking" :> -700
  ELSE "non_smoker_bonus" :> 150

\* a smoker's confidence lowered by 25 instead of 5
SmokingConfidence_25(r) == IF r.is_smoker = Some(TRUE) THEN -25 ELSE 2

SmokingConfidence(r) == IF r.is_smoker = Some(TRUE) THEN -5 ELSE 2

\* the top exercise tier starting at 200 minutes instead of 300
ExerciseAdjustment_200(r) ==
  LET ex == OrElse(r.weekly_exercise_mins, 0, 0)
  IN  IF ex >= 200 THEN "exercise" :> 250
      ELSE IF ex >= 150 THEN "exercise" :> 150
      ELSE IF ex > 0 THEN "exercise" :> 50
      ELSE EmptyDict

ExerciseAdjustment(r) ==
  LET ex == OrElse(r.weekly_exercise_mins, 0, 0)
  IN  IF ex >= 300 THEN "exercise" :> 250
      ELSE IF ex >= 150 THEN "exercise" :> 150
      ELSE IF ex > 0 THEN "exercise" :> 50
      ELSE EmptyDict

ExerciseConfidence(r) ==
  IF OrElse(r.weekly_exercise_mins, 0, 0) >= 300 THEN 2 ELSE 0

\* the penalty of level 4 mistyped as -1.2
StressPenalty_typo(stress) ==
  (1 :> -50 @@ 2 :> -100 @@ 3 :> -150 @@ 4 :> -120 @@ 5 :> -300)[stress]

StressPenalty(stress) ==
  (1 :> -50 @@ 2 :> -100 @@ 3 :> -150 @@ 4 :> -220 @@ 5 :> -300)[stress]

StressAdjustment(r) ==
  "stress" :> StressPenalty(OrElse(r.stress_level, 0, 3))

BmiAdjustment(r) ==
  LET bmi == calc_bmi(r.height_cm, r.weight_kg)
  IN  IF bmi = None THEN EmptyDict
      ELSE IF Get(bmi) < 185 THEN "bmi" :> -150
      ELSE IF Get(bmi) < 250 THEN "bmi" :> 100
      ELSE IF Get(bmi) < 300 THEN "bmi" :> -100
      ELSE IF Get(bmi) < 350 THEN "bmi" :> -300
      ELSE "bmi" :> -600

BmiConfidence(r) ==
  IF calc_bmi(r.height_cm, r.weight_kg) = None THEN 0 ELSE 3

GenderAdjustment(r) ==
  IF Lower(OrElse(r.gender, <<>>, S_unspecified)) = S_unspecified
  THEN "gender_unspecified" :> -30
  ELSE EmptyDict

\* the adjustments dict shared between calls instead of built fresh
Adjustments_shared(r) ==
  SmokingAdjustment(r) @@ ExerciseAdjustment(r) @@ StressAdjustment(r)
  @@ BmiAdjustment(r) @@ GenderAdjustment(r)
  @@ (IF resp.status = 200 THEN resp.factors ELSE EmptyDict)

Adjustments(r) ==
  SmokingAdjustment(r) @@ ExerciseAdjustment(r) @@ StressAdjustment(r)
  @@ BmiAdjustment(r) @@ GenderAdjustment(r)

RawConfidence(r) ==
  70 + SmokingConfidence(r) + ExerciseConfidence(r) + BmiConfidence(r)

\* the lower clamp forgotten
ClampLifespan_nofloor(x) == Min(10000, x)

ClampLifespan(x) == Max(4000, Min(10000, x))

ClampConfidence(c) == Max(50, Min(90, c))

estimate_lifespan_years(r) ==
  [country_key |-> parse_country(r.country),
   base        |-> BaseFor(r),
   adjustments |-> Adjustments(r),
   raw         |-> BaseFor(r) + SumValues(Adjustments(r)),
   raw_confidence |-> RawConfidence(r),
   lifespan    |-> ClampLifespan(BaseFor(r) + SumValues(Adjustments(r))),
   confidence  |-> ClampConfidence(RawConfidence(r))]

(* ---------------------------- dates ------------------------------------ *)

Digits == <<"0", "1", "2", "3", "4", "5", "6", "7", "8", "9">>

IsDigit(c) == \E i \in 1..10 : Digits[i] = c

DigitVal(c) == (CHOOSE i \in 1..10 : Digits[i] = c) - 1

RECURSIVE ToInt(_)
ToInt(s) ==
  IF s = <<>> THEN 0
  ELSE 10 * ToInt(SubSeq(s, 1, Len(s) - 1)) + DigitVal(s[Len(s)])

IsLeap(y) == y % 4 = 0 /\ (y % 100 # 0 \/ y % 400 = 0)

DaysInMonth(y, m) ==
  IF m = 2 THEN (IF IsLeap(y) THEN 29 ELSE 28)
  ELSE IF m \in {4, 6, 9, 11} THEN 30 ELSE 31

RECURSIVE DaysBeforeMonth(_, _)
DaysBeforeMonth(y, m) ==
  IF m = 1 THEN 0 ELSE DaysBeforeMonth(y, m - 1) + DaysInMonth(y, m - 1)

\* date(y, m, d).toordinal()
ToOrdinal(y, m, d) ==
  LET p == y - 1
  IN  p * 365 + (p \div 4) - (p \div 100) + (p \div 400)
      + DaysBeforeMonth(y, m) + d

\* datetime.strptime(v, "%Y-%m-%d").date(): None when it raises ValueError
ParseDate(v) ==
  LET hy == {i \in 1..Len(v) : v[i] = "-"}
  IN  IF Cardinality(hy) # 2 THEN None
      ELSE LET p1 == CHOOSE i \in hy : \A j \in hy : i <= j
               p2 == CHOOSE i \in hy : \A j \in hy : i >= j
               ys == SubSeq(v, 1, p1 - 1)
               ms == SubSeq(v, p1 + 1, p2 - 1)
               ds == SubSeq(v, p2 + 1, Len(v))
               digits == \A i \in (1..Len(v)) \ hy : IsDigit(v[i])
           IN  IF ~digits \/ Len(ys) # 4 \/ Len(ms) \notin 1..2
                  \/ Len(ds) \notin 1..2
               THEN None
               ELSE LET y == ToInt(ys)
                        m == ToInt(ms)
                        d == ToInt(ds)
                    IN  IF y >= 1 /\ m \in 1..12 /\ d >= 1
                           /\ d <= DaysInMonth(y, m)
                        THEN Some(ToOrdinal(y, m, d))
                        ELSE None

TwoDigits(n) == <<Digits[(n \div 10) + 1], Digits[(n % 10) + 1]>>

\* date.isoformat(), used to build inputs only
IsoFormat(y, m, d) ==
  TwoDigits(y \div 100) \o TwoDigits(y % 100) \o <<"-">> \o TwoDigits(m)
  \o <<"-">> \o TwoDigits(d)

(* ---------------------------- PredictRequest --------------------------- *)

InRange(opt, lo, hi) ==
  IF opt = None THEN TRUE ELSE Get(opt) >= lo /\ Get(opt) <= hi

validate_birth_date(v) == ParseDate(v) # None

\* The field constraints of PredictRequest; a request failing them never
\* reaches predict_life (the framework answers 422).
Validate(r) ==
  /\ validate_birth_date(r.birth_date)
  /\ InRange(r.height_cm, 100, 250)
  /\ InRange(r.weight_kg, 30, 300)
  /\ InRange(r.weekly_exercise_mins, 0, 2000)
  /\ InRange(r.stress_level, 1, 5)

(* ---------------------------- predict_life ----------------------------- *)

\* round(age_days / 365.2425, 2), in hundredths of a year
\* (100 / 365.2425 = 40000 / 146097)
AgeYears(age_days) == RoundDiv(age_days * 40000, 146097)

\* max(0.0, ...) forgotten
RemainingYears_nomax(lifespan_years, age_years) == lifespan_years - age_years

RemainingYears(lifespan_years, age_years) == Max(0, lifespan_years - age_years)

\* int(remaining_years * 365.2425)
RemainingDays(remaining_years) == (remaining_years * 146097) \div 40000

\* dob >= today instead of dob > today
InFuture_ge(dob, now) == dob >= now

\* dob > today
InFuture(dob, now) == dob > now

predict_life(r, now) ==
  LET dob == ParseDate(r.birth_date)
  IN  IF dob = None
      THEN [status |-> 400,
            detail |-> "Invalid birth_date format. Use YYYY-MM-DD"]
      ELSE IF InFuture(Get(dob), now)
      THEN [status |-> 400, detail |-> "birth_date cannot be in the future"]
      ELSE LET age_years == AgeYears(now - Get(dob))
               e == estimate_lifespan_years(r)
               remaining_years == RemainingYears(e.lifespan, age_years)
           IN  [status |-> 200,
                name |-> r.full_name,
                birth_date |-> Get(dob),
                current_age_years |-> age_years,
                predicted_lifespan_years |-> e.lifespan,
                predicted_death_date |-> now + RemainingDays(remaining_years),
                remaining_years |-> remaining_years,
                confidence |-> e.confidence,
                factors |-> e.adjustments]

(* ---------------------------- inputs ----------------------------------- *)

Day0 == ToOrdinal(2024, 2, 28)

Genders ==
  {None} \cup
  {Some(g) : g \in {<<>>, S_male, S_female, S_unspecified, S_other,
                    Capitalize(S_male), Upper(S_male), Capitalize(S_female),
                    Upper(S_unspecified)}}

\* the table keys, an unknown word, and a key with a blank inside
CountryWords ==
  DOMAIN BASE_LIFE_EXPECTANCY \cup {S_mars, <<"u", " ", "k">>}

Spellings(w) == {w, Upper(w), Capitalize(w)}

\* every word in three spellings, with up to MaxPad blanks on either side
Countries ==
  {None} \cup
  {Some(Blanks(l) \o c \o Blanks(r)) :
     l \in 0..MaxPad, r \in 0..MaxPad,
     c \in UNION {Spellings(w) : w \in CountryWords} \cup {<<>>}}

\* the countries of the engine runs: absent, each key, an unknown word
EngineCountries ==
  {None} \cup {Some(w) : w \in DOMAIN BASE_LIFE_EXPECTANCY \cup {S_mars}}

Smokers == {None, Some(TRUE), Some(FALSE)}

ExerciseMins == {None, Some(0), Some(100), Some(200), Some(300)}

StressLevels == {None} \cup {Some(n) : n \in 1..5}

\* <<height_cm, weight_kg>>: no index, and one in each of the five classes
Bodies ==
  {<<None, None>>, <<None, Some(75)>>, <<Some(180), None>>,
   <<Some(180), Some(50)>>, <<Some(180), Some(75)>>, <<Some(180), Some(90)>>,
   <<Some(180), Some(100)>>, <<Some(180), Some(120)>>}

Request(b, g, s, hw, ex, st, c) ==
  [full_name |-> None, birth_date |-> b, gender |-> g, is_smoker |-> s,
   height_cm |-> hw[1], weight_kg |-> hw[2], weekly_exercise_mins |-> ex,
   stress_level |-> st, country |-> c]

\* today and tomorrow on Day0, two past dates, and a day that does not exist
BirthDates ==
  {IsoFormat(2024, 2, 28), IsoFormat(2024, 2, 29), IsoFormat(1990, 1, 1),
   IsoFormat(1900, 1, 1), IsoFormat(2023, 2, 29)}

\* The raw requests sent to POST /api/predict, some failing validation.
PredictRequests ==
  {Request(b, Some(S_male), s, <<Some(180), Some(75)>>, Some(200), st,
           Some(S_usa)) :
     b \in BirthDates, s \in {Some(TRUE), Some(FALSE)},
     st \in {Some(2), Some(6)}}

(* ---------------------------- state machine ---------------------------- *)

NoRequest == [status |-> 0]

NoEstimate == [status |-> 0]

NoResponse == [status |-> 0]

NoCall == [status |-> 0]

InitEngine ==
  /\ today = Day0
  /\ \E g \in Genders, s \in Smokers, hw \in Bodies, ex \in ExerciseMins,
        st \in StressLevels, c \in EngineCountries :
       req = Request(IsoFormat(1990, 1, 1), g, s, hw, ex, st, c)
  /\ est = NoEstimate
  /\ resp = NoResponse
  /\ called_on = Day0
  /\ prev = NoCall

\* estimate_lifespan_years(req)
Estimate ==
  /\ est = NoEstimate
  /\ Validate(req)
  /\ est' = estimate_lifespan_years(req)
  /\ UNCHANGED <<today, req, resp, called_on, prev>>

NextEngine == Estimate

SpecEngine == InitEngine /\ [][NextEngine]_vars

\* The engine run on every spelling of the country, with every gender.
InitCountry ==
  /\ today = Day0
  /\ \E g \in Genders, s \in {Some(TRUE), Some(FALSE)},
        hw \in {<<None, None>>, <<Some(180), Some(75)>>}, c \in Countries :
       req = Request(IsoFormat(1990, 1, 1), g, s, hw, Some(200), Some(2), c)
  /\ est = NoEstimate
  /\ resp = NoResponse
  /\ called_on = Day0
  /\ prev = NoCall

SpecCountry == InitCountry /\ [][NextEngine]_vars

Init ==
  /\ today = Day0
  /\ req = NoRequest
  /\ est = NoEstimate
  /\ resp = NoResponse
  /\ called_on = Day0
  /\ prev = NoCall

\* POST /api/predict with body r
Predict(r) ==
  /\ req' = r
  /\ called_on' = today
  /\ IF Validate(r)
     THEN /\ resp' = predict_life(r, today)
          /\ est' = IF resp'.status = 200
                    THEN estimate_lifespan_years(r) ELSE NoEstimate
     ELSE /\ resp' = [status |-> 422]
          /\ est' = NoEstimate
  /\ prev' \in {prev} \cup
       (IF req = NoRequest THEN {}
        ELSE {[req |-> req, called_on |-> called_on, resp |-> resp]})
  /\ UNCHANGED today

\* midnight passes
Tick ==
  /\ today < Day0 + MaxDay
  /\ today' = today + 1
  /\ UNCHANGED <<req, est, resp, called_on, prev>>

Next == (\E r \in PredictRequests : Predict(r)) \/ Tick

Spec == Init /\ [][Next]_vars

(* ---------------------------- properties ------------------------------- *)

Estimated == est # NoEstimate

CountryKeys == {S_global, S_usa, S_uk, S_india, S_japan, S_nigeria}

GenderKeys == {S_male, S_female, S_unspecified}

\* C1: every validated request gets a lifespan within 40.0..100.0 years and
\* a confidence within 50..90, from estimate_lifespan_years and from predict.
C1_Bounds ==
  /\ Estimated =>
       /\ est.lifespan >= 4000 /\ est.lifespan <= 10000
       /\ est.confidence >= 50 /\ est.confidence <= 90
  /\ resp.status = 200 =>
       /\ resp.predicted_lifespan_years >= 4000
       /\ resp.predicted_lifespan_years <= 10000
       /\ resp.confidence >= 50 /\ resp.confidence <= 90

\* the sum fell below 40.0 and was clamped
C1_Witness == Estimated /\ est.raw < 4000 /\ est.lifespan = 4000

\* C3: a gender string other than male/female/unspecified gives the same
\* baseline, the same adjustment mapping (with gender_unspecified = -0.3) and
\* the same lifespan as gender = "unspecified".
C3_GenderFallback ==
  (Estimated /\ req.gender # None
     /\ Lower(Get(req.gender)) \notin GenderKeys /\ Get(req.gender) # <<>>) =>
    LET u == estimate_lifespan_years(
               [req EXCEPT !.gender = Some(S_unspecified)])
    IN  /\ est.base = u.base
        /\ est.adjustments = u.adjustments
        /\ "gender_unspecified" \in DOMAIN est.adjustments
        /\ est.lifespan = u.lifespan

\* C4: a case variant of male/female/unspecified gives the same baseline,
\* adjustments and lifespan as the lowercase key.
C4_GenderCaseInsensitive ==
  (Estimated /\ req.gender # None /\ Lower(Get(req.gender)) \in GenderKeys) =>
    LET l == estimate_lifespan_years(
               [req EXCEPT !.gender = Some(Lower(Get(req.gender)))])
    IN  /\ est.base = l.base
        /\ est.adjustments = l.adjustments
        /\ est.lifespan = l.lifespan

\* the spellings of a table key: any case, blanks on either side
Variants(k) ==
  {Blanks(l) \o c \o Blanks(r) :
     l \in 0..MaxPad, r \in 0..MaxPad, c \in Spellings(k)}

Recognized(c) ==
  c # None /\ \E k \in CountryKeys : Get(c) \in Variants(k)

\* C5: a missing, empty or unrecognized country is read as "global", a
\* trimmed or lowercased variant of a table key as that key; an unrecognized
\* country gives the baseline and lifespan of "global"; the lookup never
\* fails.
C5_CountryFallback ==
  Estimated =>
    /\ est.country_key \in CountryKeys
    /\ est.country_key \in DOMAIN BASE_LIFE_EXPECTANCY
    /\ GenderKeys \subseteq DOMAIN BASE_LIFE_EXPECTANCY[est.country_key]
    /\ \A k \in CountryKeys :
         (req.country # None /\ Get(req.country) \in Variants(k))
           => est.country_key = k
    /\ ~Recognized(req.country) =>
         LET g == estimate_lifespan_years(
                    [req EXCEPT !.country = Some(S_global)])
         IN  /\ est.country_key = S_global
             /\ est.base = g.base
             /\ est.lifespan = g.lifespan

\* a padded upper-case key was resolved
C5_Witness ==
  /\ Estimated
  /\ req.country = Some(Blanks(MaxPad) \o Upper(S_usa) \o Blanks(MaxPad))
  /\ est.country_key = S_usa

\* C6: all else equal, a higher stress_level never gives a longer lifespan,
\* and is_smoker = true gives a strictly shorter one than is_smoker = false,
\* clamp included.
C6_Monotonic ==
  Estimated =>
    /\ req.stress_level # None =>
         \A n \in 1..5 :
           n > Get(req.stress_level) =>
             estimate_lifespan_years(
               [req EXCEPT !.stress_level = Some(n)]).lifespan <= est.lifespan
    /\ req.is_smoker = Some(FALSE) =>
         estimate_lifespan_years(
           [req EXCEPT !.is_smoker = Some(TRUE)]).lifespan < est.lifespan

\* a non-smoker whose smoking twin is clamped at 40.0
C6_Witness ==
  /\ Estimated
  /\ req.is_smoker = Some(FALSE)
  /\ req.stress_level = Some(3)
  /\ estimate_lifespan_years([req EXCEPT !.is_smoker = Some(TRUE)]).raw < 4000

Scenario(r) ==
  /\ r.gender = Some(S_male)
  /\ r.country = Some(S_usa)
  /\ r.is_smoker = Some(FALSE)
  /\ r.height_cm = Some(180)
  /\ r.weight_kg = Some(75)
  /\ r.weekly_exercise_mins = Some(200)
  /\ r.stress_level = Some(2)

\* C8: the scenario request uses base 73.2, gets exactly the adjustments
\* non_smoker_bonus +1.5, exercise +1.5, stress -1.0, bmi +1.0 (index 23.1),
\* and returns lifespan 76.2 with confidence 75.
C8_Scenario ==
  (Estimated /\ Scenario(req)) =>
    /\ est.base = 7320
    /\ calc_bmi(req.height_cm, req.weight_kg) = Some(231)
    /\ est.adjustments =
         [non_smoker_bonus |-> 150, exercise |-> 150, stress |-> -100,
          bmi |-> 100]
    /\ est.lifespan = 7620
    /\ est.confidence = 75

C8_Witness == Estimated /\ Scenario(req) /\ est.lifespan = 7620

\* C10: the confidence clamp never changes the value: the confidence is
\* 70 + (-5 if smoker else +2) + (2 if exercise >= 300) + (3 if the index is
\* computable), one of 65, 67, 68, 70, 72, 74, 75, 77.
C10_ConfidenceUnclamped ==
  Estimated =>
    /\ est.confidence = est.raw_confidence
    /\ est.confidence =
         70 + (IF req.is_smoker = Some(TRUE) THEN -5 ELSE 2)
            + (IF req.weekly_exercise_mins # None
                  /\ Get(req.weekly_exercise_mins) >= 300 THEN 2 ELSE 0)
            + (IF req.height_cm # None /\ req.weight_kg # None
               THEN 3 ELSE 0)
    /\ est.confidence \in {65, 67, 68, 70, 72, 74, 75, 77}

\* the lowest confidence: a smoker with no exercise bonus and no index
C10_Witness == Estimated /\ est.confidence = 65 /\ req.is_smoker = Some(TRUE)

Answered == req # NoRequest /\ resp.status # 422

BirthOrdinal(r) == Get(ParseDate(r.birth_date))

\* C2 as stated: two invocations of predict with identical request fields
\* return identical results in every output field, whatever happens between.
C2_Determinism ==
  (Answered /\ prev # NoCall /\ prev.req = req) => prev.resp = resp

\* C2 amended: two invocations with identical request fields on the same
\* evaluation date return identical results in every output field; when both
\* succeed on different dates they still agree on the birth date, the
\* predicted lifespan, the confidence and the factors.
C2_DeterminismPerDate ==
  (Answered /\ prev # NoCall /\ prev.req = req) =>
    /\ prev.called_on = called_on => prev.resp = resp
    /\ (prev.resp.status = 200 /\ resp.status = 200) =>
         /\ prev.resp.name = resp.name
         /\ prev.resp.birth_date = resp.birth_date
         /\ prev.resp.predicted_lifespan_years = resp.predicted_lifespan_years
         /\ prev.resp.confidence = resp.confidence
         /\ prev.resp.factors = resp.factors

\* the same request answered twice on one date, after the date has advanced
C2_Witness ==
  /\ Answered /\ prev # NoCall /\ prev.req = req
  /\ prev.called_on = called_on
  /\ resp.status = 200
  /\ called_on > Day0

\* C7: a birth date after the evaluation date is answered 400 with no
\* prediction; a birth date equal to it succeeds with age 0 and remaining
\* years equal to the lifespan; every birth date on or before it is accepted.
C7_DateRejection ==
  Answered =>
    /\ BirthOrdinal(req) > called_on =>
         /\ resp.status = 400
         /\ DOMAIN resp = {"status", "detail"}
         /\ est = NoEstimate
    /\ BirthOrdinal(req) = called_on =>
         /\ resp.status = 200
         /\ resp.current_age_years = 0
         /\ resp.remaining_years = resp.predicted_lifespan_years
    /\ BirthOrdinal(req) <= called_on => resp.status = 200

\* tomorrow was rejected, and then today accepted
C7_Witness ==
  /\ Answered /\ prev # NoCall
  /\ prev.resp.status = 400
  /\ BirthOrdinal(prev.req) = prev.called_on + 1
  /\ resp.status = 200
  /\ BirthOrdinal(req) = called_on

\* C9: remaining_years = max(0, lifespan - age); predicted_death_date =
\* today + floor(remaining_years * 365.2425) days; so remaining_years >= 0,
\* the death date is never before the evaluation date, and an age at or past
\* the lifespan gives 0 remaining years and the evaluation date.
C9_ResponseAssembly ==
  resp.status = 200 =>
    LET left == resp.predicted_lifespan_years - resp.current_age_years
        days == resp.predicted_death_date - called_on
    IN  /\ resp.remaining_years = (IF left > 0 THEN left ELSE 0)
        /\ days * 40000 <= resp.remaining_years * 146097
        /\ resp.remaining_years * 146097 < (days + 1) * 40000
        /\ resp.remaining_years >= 0
        /\ resp.predicted_death_date >= called_on
        /\ resp.current_age_years >= resp.predicted_lifespan_years =>
             /\ resp.remaining_years = 0
             /\ resp.predicted_death_date = called_on

\* someone older than the predicted lifespan
C9_Witness ==
  /\ resp.status = 200
  /\ resp.current_age_years > resp.predicted_lifespan_years
  /\ resp.predicted_death_date = called_on

====
